---- MODULE Spec2Model ----
(***************************************************************************)
(* Identity, authentication-grant and permission-scoped resource-mutation  *)
(* core of HostyHosting:                                                   *)
(*   packages/backend/src/entity/User.ts                                   *)
(*   packages/backend/src/resolvers/ApplicationMutationsResolver.ts        *)
(* The persisted store is the set of rows of each entity; one action per   *)
(* resolver / entity operation.                                            *)
(***************************************************************************)
EXTENDS Integers, Sequences, FiniteSets, TLC

\* ------------------------------------------------------------------ bounds
\* Number of store-changing mutations explored in one behaviour.
MaxMutations == 1
\* Rejected second-factor attempts counted on one session (the count saturates).
MaxRejected == 2
\* Sign-ups that wrote at least one row, in one behaviour.
MaxSignUps == 2

\* ------------------------------------------------------------------ values
Null == "null"
Undefined == "undefined"

\* enum AuthType
AuthType == {"FULL", "TOTP", "PASSWORD_RESET"}

\* enum GrantType
GrantType == {"NONE", "SESSION", "API_KEY"}

\* enum OrganizationPermission, ordered read < write < admin; "none" is the
\* level of a caller without a Membership.
PermissionRank == [none |-> 0, read |-> 1, write |-> 2, admin |-> 3]

\* The result of a lookup that found no identity (User | undefined).
NoUser == [id |-> 0, grantType |-> "NONE"]

\* The session of a browser that never signed in: no userID, no type.
EmptySession == [userID |-> 0, type |-> Undefined]

\* ------------------------------------------------------------------ inputs
\* API key values a request may present; "kx" matches no APIKey record.
KeyValues == {"k1", "k2", "kx"}
\* How a request authenticates: with its session, or with an API key value.
Credentials == {"session"} \cup KeyValues
\* One-time codes a caller may submit.
Tokens == {"111", "000"}

VARIABLES
    users,           \* Identity rows: id -> [totpSecret]
    memberships,     \* OrganizationMembership rows: [user, organization, permission]
    apiKeys,         \* APIKey rows: [key, user]
    db,              \* resource hierarchy: applications, components,
                     \* containerGroups, secrets, environments, next ids
    session,         \* the browser session: [userID, type]
    cookies,         \* the browser's cookies: [userID]
    last,            \* the request being answered: the call and its result
    mutations,       \* number of store-changing mutations so far
    rejected,        \* second-factor attempts rejected since the last sign-in
    organizations,   \* Organization rows: id -> [name, isPersonal, username]
    calls            \* concurrent requests in flight: client -> its position

vars == <<users, memberships, apiKeys, db, session, cookies, last, mutations,
          rejected, organizations, calls>>
identityVars == <<users, memberships, apiKeys, organizations>>
browserVars == <<session, cookies>>

\* ------------------------------------------------------------ Credential Store
\* authenticator.verify({ secret, token }): the token is the secret's current
\* one-time code.
CurrentCode == [s1 |-> "111"]

authenticatorVerify(secret, token) == token = CurrentCode[secret]

\* hash(password, SALT_ROUNDS): the stored form of a password.
Hash(password) == "$2a$10$" \o password

\* compare accepting every password.
compare_AnyPassword(password, passwordHash) ==
    IF passwordHash = Null
    THEN [threw |-> TRUE, valid |-> FALSE]
    ELSE [threw |-> FALSE, valid |-> TRUE]

\* compare(password, passwordHash): whether the hash is that of the password;
\* it rejects when there is no hash to compare with.
compare(password, passwordHash) ==
    IF passwordHash = Null
    THEN [threw |-> TRUE, valid |-> FALSE]
    ELSE [threw |-> FALSE, valid |-> passwordHash = Hash(password)]

\* ------------------------------------------------------------ Grant Resolver
\* User.fromAPIKey with the where clause dropped: any record matches.
fromAPIKey_AnyKey(apiKey) ==
    LET key == CHOOSE k \in apiKeys : TRUE
    IN  [id |-> key.user, grantType |-> "API_KEY"]

\* User.fromAPIKey
fromAPIKey(apiKey) ==
    IF \E k \in apiKeys : k.key = apiKey
    THEN LET key == CHOOSE k \in apiKeys : k.key = apiKey
         IN  [id |-> key.user, grantType |-> "API_KEY"]
    ELSE NoUser

\* User.fromSession without the test of session.type.
fromSession_AnyType(s, allowedType) ==
    IF s.userID # 0
    THEN IF s.userID \in DOMAIN users
         THEN [id |-> s.userID, grantType |-> "SESSION"]
         ELSE NoUser
    ELSE NoUser

\* User.fromSession accepting the session only when the userID cookie names
\* the same identity.
fromSession_CheckCookie(s, allowedType) ==
    IF s.userID # 0 /\ s.type = allowedType /\ cookies.userID = ToString(s.userID)
    THEN IF s.userID \in DOMAIN users
         THEN [id |-> s.userID, grantType |-> "SESSION"]
         ELSE NoUser
    ELSE NoUser

\* User.fromSession returning a user without the test `if (user)` of what
\* findOne gave.
fromSession_NoLookup(s, allowedType) ==
    IF s.userID # 0 /\ s.type = allowedType
    THEN [id |-> s.userID, grantType |-> "SESSION"]
    ELSE NoUser

\* User.fromSession
fromSession(s, allowedType) ==
    IF s.userID # 0 /\ s.type = allowedType
    THEN IF s.userID \in DOMAIN users
         THEN [id |-> s.userID, grantType |-> "SESSION"]
         ELSE NoUser
    ELSE NoUser

\* User.fromTOTPSession without the call of authenticator.verify.
fromTOTPSession_NoVerify(s, token) ==
    IF s.userID = 0 \/ s.type # "TOTP"
    THEN [ok |-> FALSE, user |-> 0, error |-> "No TOTP session currently exists."]
    ELSE IF s.userID \notin DOMAIN users \/ users[s.userID].totpSecret = Null
    THEN [ok |-> FALSE, user |-> 0, error |-> "No user was found in the current session."]
    ELSE [ok |-> TRUE, user |-> s.userID, error |-> ""]

\* User.fromTOTPSession throwing on a valid code (if (isValid) for if (!isValid)).
fromTOTPSession_Inverted(s, token) ==
    IF s.userID = 0 \/ s.type # "TOTP"
    THEN [ok |-> FALSE, user |-> 0, error |-> "No TOTP session currently exists."]
    ELSE IF s.userID \notin DOMAIN users \/ users[s.userID].totpSecret = Null
    THEN [ok |-> FALSE, user |-> 0, error |-> "No user was found in the current session."]
    ELSE IF authenticatorVerify(users[s.userID].totpSecret, token)
    THEN [ok |-> FALSE, user |-> 0, error |-> "The TOTP token provided was not valid."]
    ELSE [ok |-> TRUE, user |-> s.userID, error |-> ""]

\* User.fromTOTPSession: the identity, or the error thrown.
fromTOTPSession(s, token) ==
    IF s.userID = 0 \/ s.type # "TOTP"
    THEN [ok |-> FALSE, user |-> 0, error |-> "No TOTP session currently exists."]
    ELSE IF s.userID \notin DOMAIN users \/ users[s.userID].totpSecret = Null
    THEN [ok |-> FALSE, user |-> 0, error |-> "No user was found in the current session."]
    ELSE IF ~authenticatorVerify(users[s.userID].totpSecret, token)
    THEN [ok |-> FALSE, user |-> 0, error |-> "The TOTP token provided was not valid."]
    ELSE [ok |-> TRUE, user |-> s.userID, error |-> ""]

\* cookies.set('userID', value)
cookieSet(c, value) == [c EXCEPT !.userID = value]

\* User.removeUserCookie leaving the cookie without a value.
removeUserCookie_Unset(c) == cookieSet(c, Undefined)

\* User.removeUserCookie
removeUserCookie(c) == cookieSet(c, "0")

\* user.signIn(session, cookies, type): the session and cookies afterwards.
signIn(id, s, c, type) ==
    [session |-> [userID |-> id, type |-> type],
     cookies |-> IF type = "FULL" THEN cookieSet(c, ToString(id)) ELSE c]

\* user.signOut(cookies)
signOut(c) == removeUserCookie(c)

\* The request context's user: the API key's owner when the request presents
\* a key, else the session's identity at phase FULL (the default allowedType).
ContextUser(credential) ==
    IF credential = "session"
    THEN fromSession(session, "FULL")
    ELSE fromAPIKey(credential)

\* @Authorized(): the auth checker lets a request through iff its context
\* holds a user.
Authorized(user) == user # NoUser

\* ------------------------------------------------------------ Permission Evaluator
\* The caller's level on an Organization: its Membership's, or none.
LevelOf(userID, organization) ==
    IF \E m \in memberships : m.user = userID /\ m.organization = organization
    THEN (CHOOSE m \in memberships :
              m.user = userID /\ m.organization = organization).permission
    ELSE "none"

\* userHasPermission passing only a level above the required one.
userHasPermission_Above(user, organization, permission) ==
    LET level == LevelOf(user.id, organization)
    IN  IF level = "none" THEN "NotFound"
        ELSE IF PermissionRank[level] <= PermissionRank[permission] THEN "Unauthorized"
        ELSE "ok"

\* application.userHasPermission(user, permission): throws unless the caller's
\* Membership on the Application's Organization is at least `permission`; a
\* caller without a Membership sees not-found.
userHasPermission(user, organization, permission) ==
    LET level == LevelOf(user.id, organization)
    IN  IF level = "none" THEN "NotFound"
        ELSE IF PermissionRank[level] < PermissionRank[permission] THEN "Unauthorized"
        ELSE "ok"

\* ------------------------------------------------------------ persisted store
\* Entity.delete(id): removes the row with that id, and only that row.
DeleteRow(table, id) == [i \in DOMAIN table \ {id} |-> table[i]]

\* entity.save(): writes the row under its id.
SaveRow(table, id, row) == [i \in DOMAIN table \cup {id} |-> IF i = id THEN row ELSE table[i]]

Step(name, user, target) == [step |-> name, user |-> user, target |-> target]

Failed(d, outcome) == [outcome |-> outcome, db |-> d, steps |-> <<>>]

Done(d) == [outcome |-> "ok", db |-> d, steps |-> <<Step("persist", 0, 0)>>]

\* ------------------------------------------------------------ Mutation Gate
\* The gate's result when it throws: no ApplicationMutations object.
NoApplication == [id |-> 0]

\* The gate's steps up to the permission check: Application.findOneOrFail,
\* then application.userHasPermission on the Application's Organization.
GateSteps(user, app) ==
    <<Step("loadApplication", user.id, app.id),
      Step("userHasPermission", user.id, app.organization)>>

\* What the gate gives once the Application is loaded: the permission
\* check's error, or new ApplicationMutations(application).
Checked(user, app, permission) ==
    LET outcome == userHasPermission(user, app.organization, permission)
    IN  IF outcome = "ok"
        THEN [outcome |-> "ok", app |-> app,
              steps |-> Append(GateSteps(user, app),
                               Step("ApplicationMutations", user.id, app.id))]
        ELSE [outcome |-> outcome, app |-> NoApplication,
              steps |-> GateSteps(user, app)]

\* The gate asking for OrganizationPermission.READ.
application_RequireRead(user, id, d) ==
    IF ~Authorized(user)
    THEN [outcome |-> "Unauthenticated", app |-> NoApplication, steps |-> <<>>]
    ELSE IF id \notin DOMAIN d.applications
    THEN [outcome |-> "NotFound", app |-> NoApplication,
          steps |-> <<Step("loadApplication", user.id, id)>>]
    ELSE Checked(user, d.applications[id], "read")

\* The gate without @Authorized().
application_NoAuthorized(user, id, d) ==
    IF id \notin DOMAIN d.applications
    THEN [outcome |-> "NotFound", app |-> NoApplication,
          steps |-> <<Step("loadApplication", user.id, id)>>]
    ELSE Checked(user, d.applications[id], "write")

\* ApplicationMutationsResolver.application: the loaded Application the
\* mutations act on (this.application), or the error.
application(user, id, d) ==
    IF ~Authorized(user)
    THEN [outcome |-> "Unauthenticated", app |-> NoApplication, steps |-> <<>>]
    ELSE IF id \notin DOMAIN d.applications
    THEN [outcome |-> "NotFound", app |-> NoApplication,
          steps |-> <<Step("loadApplication", user.id, id)>>]
    ELSE Checked(user, d.applications[id], "write")

\* ------------------------------------------------------------ ApplicationMutations
\* Each mutation takes the store and this.application (the entity the gate
\* loaded) and gives the outcome and the store afterwards.

\* ApplicationMutations.delete
delete(d, app) ==
    Done([d EXCEPT !.applications = DeleteRow(@, app.id)])

\* typeof v !== 'undefined' alone: null counts as a value.
Provided_NotUndefined(v) == v # Undefined

\* typeof v !== 'undefined' && v !== null
Provided(v) == v # Undefined /\ v # Null

\* ApplicationMutations.update
update(d, app, applicationInput) ==
    LET named == IF Provided(applicationInput.name)
                 THEN [app EXCEPT !.name = applicationInput.name] ELSE app
        described == IF Provided(applicationInput.description)
                     THEN [named EXCEPT !.description = applicationInput.description]
                     ELSE named
    IN  Done([d EXCEPT !.applications = SaveRow(@, app.id, described)])

\* ApplicationMutations.createComponent
createComponent(d, app, componentInput) ==
    LET id == d.nextID.components
        component == [id |-> id,
                      application |-> app.id,
                      name |-> componentInput.name,
                      image |-> componentInput.image,
                      deploymentStrategy |-> componentInput.deploymentStrategy]
    IN  Done([d EXCEPT !.components = SaveRow(@, id, component),
                       !.nextID.components = id + 1])

\* containerGroup.setSize / setContainerCount: reject a value outside the
\* allowed set.
AllowedSizes == {"small", "large"}
AllowedContainerCounts == {1, 2}

\* ApplicationMutations.createContainerGroup looking the Component up by id
\* alone.
createContainerGroup_AnyComponent(d, app, containerGroupInput) ==
    LET organization == app.organization
        cid == containerGroupInput.componentID
        eid == containerGroupInput.environmentID
    IN  IF ~(cid \in DOMAIN d.components)
        THEN Failed(d, "NotFound")
        ELSE IF ~(eid \in DOMAIN d.environments
                  /\ d.environments[eid].organization = organization)
        THEN Failed(d, "NotFound")
        ELSE IF containerGroupInput.size \notin AllowedSizes
                \/ containerGroupInput.containerCount \notin AllowedContainerCounts
        THEN Failed(d, "ValidationFailed")
        ELSE LET id == d.nextID.containerGroups
                 containerGroup == [id |-> id,
                                    environment |-> eid,
                                    organization |-> organization,
                                    component |-> cid,
                                    size |-> containerGroupInput.size,
                                    containerCount |-> containerGroupInput.containerCount]
             IN  Done([d EXCEPT !.containerGroups = SaveRow(@, id, containerGroup),
                                !.nextID.containerGroups = id + 1])

\* ApplicationMutations.createContainerGroup looking the Environment up by
\* id alone.
createContainerGroup_AnyEnvironment(d, app, containerGroupInput) ==
    LET organization == app.organization
        cid == containerGroupInput.componentID
        eid == containerGroupInput.environmentID
    IN  IF ~(cid \in DOMAIN d.components /\ d.components[cid].application = app.id)
        THEN Failed(d, "NotFound")
        ELSE IF ~(eid \in DOMAIN d.environments)
        THEN Failed(d, "NotFound")
        ELSE IF containerGroupInput.size \notin AllowedSizes
                \/ containerGroupInput.containerCount \notin AllowedContainerCounts
        THEN Failed(d, "ValidationFailed")
        ELSE LET id == d.nextID.containerGroups
                 containerGroup == [id |-> id,
                                    environment |-> eid,
                                    organization |-> organization,
                                    component |-> cid,
                                    size |-> containerGroupInput.size,
                                    containerCount |-> containerGroupInput.containerCount]
             IN  Done([d EXCEPT !.containerGroups = SaveRow(@, id, containerGroup),
                                !.nextID.containerGroups = id + 1])

\* ApplicationMutations.createContainerGroup
createContainerGroup(d, app, containerGroupInput) ==
    LET organization == app.organization
        cid == containerGroupInput.componentID
        eid == containerGroupInput.environmentID
    IN  IF ~(cid \in DOMAIN d.components /\ d.components[cid].application = app.id)
        THEN Failed(d, "NotFound")
        ELSE IF ~(eid \in DOMAIN d.environments
                  /\ d.environments[eid].organization = organization)
        THEN Failed(d, "NotFound")
        ELSE IF containerGroupInput.size \notin AllowedSizes
                \/ containerGroupInput.containerCount \notin AllowedContainerCounts
        THEN Failed(d, "ValidationFailed")
        ELSE LET id == d.nextID.containerGroups
                 containerGroup == [id |-> id,
                                    environment |-> eid,
                                    organization |-> organization,
                                    component |-> cid,
                                    size |-> containerGroupInput.size,
                                    containerCount |-> containerGroupInput.containerCount]
             IN  Done([d EXCEPT !.containerGroups = SaveRow(@, id, containerGroup),
                                !.nextID.containerGroups = id + 1])

\* Component.findByApplicationAndId: whether the Application has a Component
\* with that id (else the lookup throws not-found).
findByApplicationAndId(d, app, id) ==
    id \in DOMAIN d.components /\ d.components[id].application = app.id

\* ApplicationMutations.updateComponent
updateComponent(d, app, id, componentInput) ==
    IF ~findByApplicationAndId(d, app, id)
    THEN Failed(d, "NotFound")
    ELSE LET row == d.components[id]
             component == [f \in DOMAIN row |->
                              IF f \in DOMAIN componentInput THEN componentInput[f]
                              ELSE row[f]]
         IN  Done([d EXCEPT !.components = SaveRow(@, id, component)])

\* ContainerGroup.findOneOrFail(containerGroupID): by id alone.
findContainerGroup(d, app, containerGroupID) ==
    containerGroupID \in DOMAIN d.containerGroups

\* ApplicationMutations.addSecret
addSecret(d, app, containerGroupID, key, value) ==
    IF ~findContainerGroup(d, app, containerGroupID)
    THEN Failed(d, "NotFound")
    ELSE LET id == d.nextID.secrets
             secret == [id |-> id, containerGroup |-> containerGroupID,
                        key |-> key, value |-> value]
         IN  Done([d EXCEPT !.secrets = SaveRow(@, id, secret),
                            !.nextID.secrets = id + 1])

\* Secret.findOneOrFail by id alone.
findSecret_ByIdOnly(d, containerGroupID, id) ==
    id \in DOMAIN d.secrets

\* Secret.findOneOrFail({ where: { id, containerGroup: { id: containerGroupID } } })
findSecret(d, containerGroupID, id) ==
    id \in DOMAIN d.secrets /\ d.secrets[id].containerGroup = containerGroupID

\* ApplicationMutations.editSecret
editSecret(d, app, containerGroupID, id, key, value) ==
    IF ~findSecret(d, containerGroupID, id)
    THEN Failed(d, "NotFound")
    ELSE LET secret == [d.secrets[id] EXCEPT !.key = key, !.value = value]
         IN  Done([d EXCEPT !.secrets = SaveRow(@, id, secret)])

\* ApplicationMutations.deleteSecret
deleteSecret(d, app, containerGroupID, id) ==
    IF ~findSecret(d, containerGroupID, id)
    THEN Failed(d, "NotFound")
    ELSE Done([d EXCEPT !.secrets = DeleteRow(@, id)])

\* ApplicationMutations.deleteComponent
deleteComponent(d, app, id) ==
    IF ~findByApplicationAndId(d, app, id)
    THEN Failed(d, "NotFound")
    ELSE Done([d EXCEPT !.components = DeleteRow(@, id)])

\* ------------------------------------------------------------ initial state
\* alice (1) enrolled a second factor, bob (2) did not.
InitUsers ==
    (1 :> [id |-> 1, username |-> "alice", email |-> "alice@x.io",
           personalOrganization |-> 1, passwordHash |-> Hash("pw1"),
           totpSecret |-> "s1"]) @@
    (2 :> [id |-> 2, username |-> "bob", email |-> "bob@x.io",
           personalOrganization |-> 3, passwordHash |-> Hash("pw2"),
           totpSecret |-> Null])

\* Organization 1 is alice's personal Organization, 3 is bob's; 2 is shared.
InitOrganizations ==
    (1 :> [id |-> 1, name |-> "Personal", isPersonal |-> TRUE, username |-> "alice"]) @@
    (2 :> [id |-> 2, name |-> "Acme", isPersonal |-> FALSE, username |-> "acme"]) @@
    (3 :> [id |-> 3, name |-> "Personal", isPersonal |-> TRUE, username |-> "bob"])

\* alice is admin of organization 1 and has read on organization 2; bob has
\* write on organization 2, is admin of his personal organization 3 and has
\* no Membership on organization 1.
InitMemberships ==
    {[user |-> 1, organization |-> 1, permission |-> "admin"],
     [user |-> 1, organization |-> 2, permission |-> "read"],
     [user |-> 2, organization |-> 2, permission |-> "write"],
     [user |-> 2, organization |-> 3, permission |-> "admin"]}

InitAPIKeys == {[key |-> "k1", user |-> 1], [key |-> "k2", user |-> 2]}

\* One Application per Organization, each with one Component, one
\* ContainerGroup and one Secret.
InitDB ==
    [applications |-> [i \in 1..2 |->
        [id |-> i, organization |-> i, name |-> "web", description |-> "site"]],
     components |-> [i \in 1..2 |->
        [id |-> i, application |-> i, name |-> "api", image |-> "repo/api:1",
         deploymentStrategy |-> "RECREATE"]],
     containerGroups |-> [i \in 1..2 |->
        [id |-> i, environment |-> i, organization |-> i, component |-> i,
         size |-> "small", containerCount |-> 2]],
     secrets |-> [i \in 1..2 |->
        [id |-> i, containerGroup |-> i, key |-> "DB_URL", value |-> "postgres"]],
     environments |-> [i \in 1..2 |-> [id |-> i, organization |-> i]],
     nextID |-> [components |-> 3, containerGroups |-> 3, secrets |-> 3]]

\* A browser that never signed in.
NewBrowser == [session |-> EmptySession, cookies |-> [userID |-> Undefined]]

\* The browsers one sign-in away from a new one: any identity, any phase.
SignedInBrowsers ==
    { signIn(id, NewBrowser.session, NewBrowser.cookies, type) :
          id \in DOMAIN InitUsers, type \in AuthType }

\* No request is being answered.
Idle == [op |-> "none", credential |-> "none", args |-> <<>>, user |-> NoUser,
         outcome |-> "none", steps |-> <<>>, before |-> <<>>]

\* The clients whose requests the server handles concurrently.
Clients == {1, 2}

\* A client that sent no request yet.
NoCall == [pc |-> "idle", op |-> "none", args |-> <<>>, app |-> NoApplication,
           row |-> [id |-> 0], outcome |-> "none", stale |-> FALSE]

InitStore ==
    /\ users = InitUsers
    /\ memberships = InitMemberships
    /\ organizations = InitOrganizations
    /\ apiKeys = InitAPIKeys
    /\ db = InitDB
    /\ last = Idle
    /\ mutations = 0
    /\ rejected = 0
    /\ calls = [p \in Clients |-> NoCall]

\* The store with a browser in any of the sign-in states.
Init ==
    /\ InitStore
    /\ \E b \in {NewBrowser} \cup SignedInBrowsers :
           session = b.session /\ cookies = b.cookies

\* The store with a new browser.
InitAuth ==
    /\ InitStore
    /\ session = NewBrowser.session
    /\ cookies = NewBrowser.cookies

\* ------------------------------------------------------------ inputs of the mutations
\* Application ids a caller may pass (0 names no Application).
AppIDs == 0..2
\* Component, ContainerGroup and Secret ids a caller may pass (3 is the id
\* the next created row gets).
RowIDs == 1..3

ApplicationInputs ==
    {[name |-> Undefined, description |-> Undefined],
     [name |-> "shop", description |-> Null],
     [name |-> Null, description |-> "store"],
     [name |-> "shop", description |-> "store"]}

ComponentInputs ==
    {[name |-> "worker", image |-> "repo/worker:1", deploymentStrategy |-> "REPLACE"]}

\* updateComponent's input holds the keys the caller sent; a key sent as
\* null is a key of the input.
ComponentUpdateInputs ==
    { [f \in fields |-> IF f = "name" THEN "worker"
                        ELSE IF f = "image" THEN "repo/worker:1" ELSE "REPLACE"] :
          fields \in {{}, {"name"}, {"image", "deploymentStrategy"},
                      {"name", "image", "deploymentStrategy"}} }
        \cup {[name |-> Null]}

ContainerGroupInputs ==
    [componentID : 1..2, environmentID : 1..2, size : {"small", "huge"},
     containerCount : {1}]

SecretKeys == {"API_TOKEN"}
SecretValues == {"v"}

MutationOps ==
    {"delete", "update", "createComponent", "createContainerGroup",
     "updateComponent", "addSecret", "editSecret", "deleteSecret",
     "deleteComponent"}

\* ------------------------------------------------------------ actions
\* The field resolver of ApplicationMutations a request names, applied to the
\* store and this.application with the request's arguments.
Mutation(op, d, app, args) ==
    CASE op = "delete" -> delete(d, app)
      [] op = "update" -> update(d, app, args[1])
      [] op = "createComponent" -> createComponent(d, app, args[1])
      [] op = "createContainerGroup" -> createContainerGroup(d, app, args[1])
      [] op = "updateComponent" -> updateComponent(d, app, args[1], args[2])
      [] op = "addSecret" -> addSecret(d, app, args[1], args[2], args[3])
      [] op = "editSecret" -> editSecret(d, app, args[1], args[2], args[3], args[4])
      [] op = "deleteSecret" -> deleteSecret(d, app, args[1], args[2])
      [] op = "deleteComponent" -> deleteComponent(d, app, args[1])

\* A mutation request: resolve the context's user, pass the gate, run the
\* mutation on the loaded Application; `last` holds the call, the store it
\* found and its result until the response is sent.
Respond(op, credential, id, args) ==
    LET user == ContextUser(credential)
        gate == application(user, id, db)
        result == IF gate.outcome = "ok" THEN Mutation(op, db, gate.app, args)
                  ELSE Failed(db, gate.outcome)
    IN  /\ last = Idle
        /\ result.db # db => mutations < MaxMutations
        /\ db' = result.db
        /\ mutations' = IF result.db # db THEN mutations + 1 ELSE mutations
        /\ last' = [op |-> op, credential |-> credential, args |-> <<id>> \o args,
                    user |-> user, outcome |-> result.outcome,
                    steps |-> gate.steps \o result.steps, before |-> db]
        /\ UNCHANGED <<identityVars, browserVars, rejected, calls>>

Delete ==
    \E c \in Credentials, id \in AppIDs :
        Respond("delete", c, id, <<>>)

Update ==
    \E c \in Credentials, id \in AppIDs, input \in ApplicationInputs :
        Respond("update", c, id, <<input>>)

CreateComponent ==
    \E c \in Credentials, id \in AppIDs, input \in ComponentInputs :
        Respond("createComponent", c, id, <<input>>)

CreateContainerGroup ==
    \E c \in Credentials, id \in AppIDs, input \in ContainerGroupInputs :
        Respond("createContainerGroup", c, id, <<input>>)

UpdateComponent ==
    \E c \in Credentials, id \in AppIDs, cid \in 1..2, input \in ComponentUpdateInputs :
        Respond("updateComponent", c, id, <<cid, input>>)

AddSecret ==
    \E c \in Credentials, id \in AppIDs, g \in RowIDs,
       k \in SecretKeys, v \in SecretValues :
        Respond("addSecret", c, id, <<g, k, v>>)

EditSecret ==
    \E c \in Credentials, id \in AppIDs, g \in 1..2, sid \in RowIDs,
       k \in SecretKeys, v \in SecretValues :
        Respond("editSecret", c, id, <<g, sid, k, v>>)

DeleteSecret ==
    \E c \in Credentials, id \in AppIDs, g \in 1..2, sid \in RowIDs :
        Respond("deleteSecret", c, id, <<g, sid>>)

DeleteComponent ==
    \E c \in Credentials, id \in AppIDs, cid \in RowIDs :
        Respond("deleteComponent", c, id, <<cid>>)

\* A sign-in resolver calls user.signIn(session, cookies, type) for an
\* identity it authenticated.
SignIn ==
    \E id \in DOMAIN users, type \in AuthType :
        LET r == signIn(id, session, cookies, type)
        IN  /\ last = Idle
            /\ session' = r.session
            /\ cookies' = r.cookies
            /\ last' = [op |-> "signIn", credential |-> "session",
                        args |-> <<id, type>>, user |-> NoUser,
                        outcome |-> "ok", steps |-> <<>>, before |-> db]
            /\ rejected' = 0
            /\ UNCHANGED <<identityVars, db, mutations, calls>>

\* The sign-out resolver calls user.signOut(cookies).
SignOut ==
    /\ last = Idle
    /\ cookies' = signOut(cookies)
    /\ last' = [op |-> "signOut", credential |-> "session", args |-> <<>>,
                user |-> NoUser, outcome |-> "ok", steps |-> <<>>, before |-> db]
    /\ UNCHANGED <<identityVars, db, session, mutations, rejected, calls>>

\* Second-factor completion: User.fromTOTPSession(session, token), then
\* user.signIn(session, cookies) re-issues the session at phase FULL.
ExchangeTOTP ==
    \E token \in Tokens :
        LET r == fromTOTPSession(session, token)
            s == signIn(r.user, session, cookies, "FULL")
        IN  /\ last = Idle
            /\ session' = IF r.ok THEN s.session ELSE session
            /\ cookies' = IF r.ok THEN s.cookies ELSE cookies
            /\ last' = [op |-> "exchangeTOTP", credential |-> "session",
                        args |-> <<token>>,
                        user |-> IF r.ok THEN [id |-> r.user, grantType |-> "NONE"]
                                 ELSE NoUser,
                        outcome |-> IF r.ok THEN "ok" ELSE r.error,
                        steps |-> <<>>, before |-> db]
            /\ rejected' = IF r.ok \/ rejected = MaxRejected THEN rejected
                           ELSE rejected + 1
            /\ UNCHANGED <<identityVars, db, mutations, calls>>

\* The response is sent and the request ends.
Reply ==
    /\ last # Idle
    /\ last' = Idle
    /\ UNCHANGED <<identityVars, db, browserVars, mutations, rejected, calls>>

\* Requests against the resource hierarchy, from a browser in any sign-in
\* state or with an API key.
Next ==
    \/ Delete
    \/ Update
    \/ CreateComponent
    \/ CreateContainerGroup
    \/ UpdateComponent
    \/ AddSecret
    \/ EditSecret
    \/ DeleteSecret
    \/ DeleteComponent
    \/ Reply

Spec == Init /\ [][Next]_vars

\* The sign-in, sign-out and second-factor flows of one browser.
NextAuth ==
    \/ SignIn
    \/ SignOut
    \/ ExchangeTOTP
    \/ Reply

SpecAuth == InitAuth /\ [][NextAuth]_vars

\* ------------------------------------------------------------ concurrent requests
\* Each request is handled independently; the awaits of a handler are the
\* points where another request's store calls may run.  A handler is cut at
\* its awaits: the gate, the lookup of the row it acts on, and its write.

\* The mutations that act on this.application without a lookup of their own.
NoLookupOps == {"delete", "update", "createComponent"}

NotLoaded == [found |-> FALSE, row |-> [id |-> 0]]

\* The lookup a mutation awaits before its write: the entity it loaded.
Loaded(op, d, app, args) ==
    CASE op \in NoLookupOps -> [found |-> TRUE, row |-> app]
      [] op = "createContainerGroup" ->
            LET cid == args[1].componentID
                eid == args[1].environmentID
            IN  IF /\ cid \in DOMAIN d.components
                   /\ d.components[cid].application = app.id
                   /\ eid \in DOMAIN d.environments
                   /\ d.environments[eid].organization = app.organization
                THEN [found |-> TRUE,
                      row |-> [id |-> 0, component |-> cid, environment |-> eid]]
                ELSE NotLoaded
      [] op \in {"updateComponent", "deleteComponent"} ->
            IF findByApplicationAndId(d, app, args[1])
            THEN [found |-> TRUE, row |-> d.components[args[1]]]
            ELSE NotLoaded
      [] op = "addSecret" ->
            IF findContainerGroup(d, app, args[1])
            THEN [found |-> TRUE, row |-> d.containerGroups[args[1]]]
            ELSE NotLoaded
      [] op \in {"editSecret", "deleteSecret"} ->
            IF findSecret(d, args[1], args[2])
            THEN [found |-> TRUE, row |-> d.secrets[args[2]]]
            ELSE NotLoaded

\* secret.save() of the new Secret with every Secret stored under the id of
\* its ContainerGroup.
addSecretSave_KeyedByGroup(d, containerGroup, key, value) ==
    LET secret == [id |-> containerGroup.id, containerGroup |-> containerGroup.id,
                   key |-> key, value |-> value]
    IN  [outcome |-> "ok", row |-> secret,
         db |-> [d EXCEPT !.secrets = SaveRow(@, secret.id, secret)]]

\* addSecret after its lookup: secret.save() inserts the new Secret; the
\* store generates the id at the insert.
addSecretSave(d, containerGroup, key, value) ==
    LET id == d.nextID.secrets
        secret == [id |-> id, containerGroup |-> containerGroup.id,
                   key |-> key, value |-> value]
    IN  [outcome |-> "ok", row |-> secret,
         db |-> [d EXCEPT !.secrets = SaveRow(@, id, secret),
                          !.nextID.secrets = id + 1]]

\* The write a mutation makes, after its lookup, with the entity it loaded:
\* save() writes the entity under its id whether or not the row still
\* exists, delete(id) removes the row if it is there.
Saved(op, d, app, row, args) ==
    CASE op \in NoLookupOps ->
            LET r == Mutation(op, d, app, args)
            IN  [outcome |-> r.outcome, row |-> row, db |-> r.db]
      [] op = "createContainerGroup" ->
            IF args[1].size \notin AllowedSizes
               \/ args[1].containerCount \notin AllowedContainerCounts
            THEN [outcome |-> "ValidationFailed", row |-> row, db |-> d]
            ELSE LET id == d.nextID.containerGroups
                     containerGroup == [id |-> id,
                                        environment |-> row.environment,
                                        organization |-> app.organization,
                                        component |-> row.component,
                                        size |-> args[1].size,
                                        containerCount |-> args[1].containerCount]
                 IN  [outcome |-> "ok", row |-> containerGroup,
                      db |-> [d EXCEPT !.containerGroups = SaveRow(@, id, containerGroup),
                                       !.nextID.containerGroups = id + 1]]
      [] op = "updateComponent" ->
            LET component == [f \in DOMAIN row |->
                                 IF f \in DOMAIN args[2] THEN args[2][f] ELSE row[f]]
            IN  [outcome |-> "ok", row |-> component,
                 db |-> [d EXCEPT !.components = SaveRow(@, row.id, component)]]
      [] op = "deleteComponent" ->
            [outcome |-> "ok", row |-> row,
             db |-> [d EXCEPT !.components = DeleteRow(@, row.id)]]
      [] op = "addSecret" -> addSecretSave(d, row, args[2], args[3])
      [] op = "editSecret" ->
            LET secret == [row EXCEPT !.key = args[3], !.value = args[4]]
            IN  [outcome |-> "ok", row |-> secret,
                 db |-> [d EXCEPT !.secrets = SaveRow(@, row.id, secret)]]
      [] op = "deleteSecret" ->
            [outcome |-> "ok", row |-> row,
             db |-> [d EXCEPT !.secrets = DeleteRow(@, row.id)]]

\* The table a mutation's loaded entity is a row of.
TableOf(op) ==
    CASE op \in {"delete", "update", "createComponent"} -> "applications"
      [] op \in {"updateComponent", "deleteComponent"} -> "components"
      [] op \in {"createContainerGroup", "addSecret"} -> "containerGroups"
      [] op \in {"editSecret", "deleteSecret"} -> "secrets"

\* The mutations the concurrent clients call, with their arguments.
RaceCalls ==
    <<[op |-> "delete", args |-> <<>>],
      [op |-> "update", args |-> <<[name |-> "shop", description |-> Undefined]>>],
      [op |-> "createComponent",
       args |-> <<[name |-> "worker", image |-> "repo/worker:1",
                   deploymentStrategy |-> "REPLACE"]>>],
      [op |-> "createContainerGroup",
       args |-> <<[componentID |-> 1, environmentID |-> 1,
                   size |-> "small", containerCount |-> 1]>>],
      [op |-> "updateComponent", args |-> <<1, [name |-> "worker"]>>],
      [op |-> "addSecret", args |-> <<1, "API_TOKEN", "v">>],
      [op |-> "addSecret", args |-> <<1, "API_HOST", "v">>],
      [op |-> "editSecret", args |-> <<1, 1, "API_TOKEN", "v">>],
      [op |-> "deleteSecret", args |-> <<1, 1>>],
      [op |-> "deleteComponent", args |-> <<1>>]>>

\* The request arrives and passes, or fails, the gate.
Begin(p) ==
    \E i \in DOMAIN RaceCalls, id \in 1..2 :
        LET r == RaceCalls[i]
            gate == application(ContextUser("k1"), id, db)
        IN  /\ calls[p].pc = "idle"
            /\ calls' = [calls EXCEPT ![p] =
                   [pc |-> IF gate.outcome # "ok" THEN "done"
                           ELSE IF r.op \in NoLookupOps THEN "loaded" ELSE "gated",
                    op |-> r.op, args |-> <<id>> \o r.args, app |-> gate.app,
                    row |-> IF gate.outcome = "ok" /\ r.op \in NoLookupOps
                            THEN gate.app ELSE [id |-> 0],
                    outcome |-> IF gate.outcome # "ok" THEN gate.outcome ELSE "none",
                    stale |-> FALSE]]
            /\ UNCHANGED <<identityVars, browserVars, db, last, mutations, rejected>>

\* The mutation's lookup returns.
Load(p) ==
    LET c == calls[p]
        r == Loaded(c.op, db, c.app, Tail(c.args))
    IN  /\ c.pc = "gated"
        /\ calls' = [calls EXCEPT ![p] =
               [c EXCEPT !.pc = IF r.found THEN "loaded" ELSE "done",
                         !.row = r.row,
                         !.outcome = IF r.found THEN "none" ELSE "NotFound"]]
        /\ UNCHANGED <<identityVars, browserVars, db, last, mutations, rejected>>

\* The mutation's write reaches the store; `stale` records that the entity it
\* loaded was no longer a row of the store by then.
Write(p) ==
    LET c == calls[p]
        r == Saved(c.op, db, c.app, c.row, Tail(c.args))
    IN  /\ c.pc = "loaded"
        /\ db' = r.db
        /\ calls' = [calls EXCEPT ![p] =
               [c EXCEPT !.pc = "done", !.row = r.row, !.outcome = r.outcome,
                         !.stale = IF c.op = "createContainerGroup"
                                   THEN c.row.component \notin DOMAIN db.components
                                   ELSE c.row.id \notin DOMAIN db[TableOf(c.op)]]]
        /\ UNCHANGED <<identityVars, browserVars, last, mutations, rejected>>

NextRace == \E p \in Clients : Begin(p) \/ Load(p) \/ Write(p)

\* Two clients, one request each, handled concurrently.
SpecRace == InitAuth /\ [][NextRace]_vars

\* ------------------------------------------------------------ sign-up
\* @PrimaryGeneratedColumn(): the id the store gives the next inserted row
\* (no row of these tables is ever deleted).
NewID(table) == Cardinality(DOMAIN table) + 1

\* The save() calls of User.signUp, in order; any of them may be rejected by
\* the store.
SignUpSaves == <<"organization", "user", "membership">>
Faults == {"none", "organization", "user", "membership"}

\* user.save() violates a unique column: username or email is taken.
UserConflict(us, username, email) ==
    \E u \in DOMAIN us : us[u].username = username \/ us[u].email = email

\* User.signUp giving the owner a WRITE Membership.
signUp_WriteMembership(orgs, us, ms, s, c, input, fault) ==
    LET oid == NewID(orgs)
        organization == [id |-> oid, name |-> "Personal", isPersonal |-> TRUE,
                         username |-> input.username]
        orgs1 == SaveRow(orgs, oid, organization)
        uid == NewID(us)
        user == [id |-> uid, username |-> input.username, email |-> input.email,
                 personalOrganization |-> oid, passwordHash |-> Null,
                 totpSecret |-> Null]
        us1 == SaveRow(us, uid, user)
        membership == [user |-> uid, organization |-> oid, permission |-> "write"]
        in == signIn(uid, s, c, "FULL")
    IN  IF fault = "organization"
        THEN [outcome |-> "InternalError", saved |-> 0, organizations |-> orgs,
              users |-> us, memberships |-> ms, session |-> s, cookies |-> c]
        ELSE IF fault = "user" \/ UserConflict(us, input.username, input.email)
        THEN [outcome |-> IF fault = "user" THEN "InternalError" ELSE "Conflict",
              saved |-> 1, organizations |-> orgs1,
              users |-> us, memberships |-> ms, session |-> s, cookies |-> c]
        ELSE IF fault = "membership"
        THEN [outcome |-> "InternalError", saved |-> 2, organizations |-> orgs1,
              users |-> us1, memberships |-> ms, session |-> s, cookies |-> c]
        ELSE [outcome |-> "ok", saved |-> 3, organizations |-> orgs1, users |-> us1,
              memberships |-> ms \cup {membership},
              session |-> in.session, cookies |-> in.cookies]

\* User.signUp: the store, session and cookies afterwards, and the number of
\* save() calls that went through before the one that threw.
signUp(orgs, us, ms, s, c, input, fault) ==
    LET oid == NewID(orgs)
        organization == [id |-> oid, name |-> "Personal", isPersonal |-> TRUE,
                         username |-> input.username]
        orgs1 == SaveRow(orgs, oid, organization)
        uid == NewID(us)
        user == [id |-> uid, username |-> input.username, email |-> input.email,
                 personalOrganization |-> oid, passwordHash |-> Null,
                 totpSecret |-> Null]
        us1 == SaveRow(us, uid, user)
        membership == [user |-> uid, organization |-> oid, permission |-> "admin"]
        in == signIn(uid, s, c, "FULL")
    IN  IF fault = "organization"
        THEN [outcome |-> "InternalError", saved |-> 0, organizations |-> orgs,
              users |-> us, memberships |-> ms, session |-> s, cookies |-> c]
        ELSE IF fault = "user" \/ UserConflict(us, input.username, input.email)
        THEN [outcome |-> IF fault = "user" THEN "InternalError" ELSE "Conflict",
              saved |-> 1, organizations |-> orgs1,
              users |-> us, memberships |-> ms, session |-> s, cookies |-> c]
        ELSE IF fault = "membership"
        THEN [outcome |-> "InternalError", saved |-> 2, organizations |-> orgs1,
              users |-> us1, memberships |-> ms, session |-> s, cookies |-> c]
        ELSE [outcome |-> "ok", saved |-> 3, organizations |-> orgs1, users |-> us1,
              memberships |-> ms \cup {membership},
              session |-> in.session, cookies |-> in.cookies]

\* What a visitor may submit: a new or a taken username, a new or a taken
\* email address.
SignUpInputs ==
    [username : {"alice", "carol"}, email : {"alice@x.io", "carol@x.io"}]

\* The sign-up resolver calls User.signUp(session, cookies, input).
SignUp ==
    \E input \in SignUpInputs, fault \in Faults :
        LET r == signUp(organizations, users, memberships, session, cookies,
                        input, fault)
        IN  /\ last = Idle
            /\ r.saved > 0 => mutations < MaxSignUps
            /\ organizations' = r.organizations
            /\ users' = r.users
            /\ memberships' = r.memberships
            /\ session' = r.session
            /\ cookies' = r.cookies
            /\ mutations' = IF r.saved > 0 THEN mutations + 1 ELSE mutations
            /\ last' = [op |-> "signUp", credential |-> "session",
                        args |-> <<input, fault>>, user |-> NoUser,
                        outcome |-> r.outcome,
                        steps |-> SubSeq(SignUpSaves, 1, r.saved),
                        before |-> [organizations |-> organizations,
                                    users |-> users, memberships |-> memberships,
                                    session |-> session, cookies |-> cookies]]
            /\ UNCHANGED <<apiKeys, db, rejected, calls>>

NextSignUp == SignUp \/ SignOut \/ Reply

\* Visitors signing up, one request at a time.
SpecSignUp == InitAuth /\ [][NextSignUp]_vars

\* ------------------------------------------------------------ permission checks
\* The levels a Membership may carry.
Levels == {"read", "write", "admin"}

\* Every Membership table over the initial Identities and Organizations 1 and
\* 2 with at most one Membership per pair.
MembershipTables ==
    { {[user |-> pair[1], organization |-> pair[2], permission |-> held[pair]] :
           pair \in {q \in DOMAIN held : held[q] # "none"}} :
        held \in [(DOMAIN InitUsers) \X (1..2) -> Levels \cup {"none"}] }

InitPermission ==
    /\ users = InitUsers
    /\ memberships \in MembershipTables
    /\ organizations = InitOrganizations
    /\ apiKeys = InitAPIKeys
    /\ db = InitDB
    /\ last = Idle
    /\ mutations = 0
    /\ rejected = 0
    /\ calls = [p \in Clients |-> NoCall]
    /\ session = NewBrowser.session
    /\ cookies = NewBrowser.cookies

\* A resolver checks the caller's permission on an Organization.
CheckPermission ==
    \E u \in DOMAIN users, o \in 1..2, permission \in Levels :
        LET user == [id |-> u, grantType |-> "SESSION"]
        IN  /\ last = Idle
            /\ last' = [op |-> "userHasPermission", credential |-> "session",
                        args |-> <<u, o, permission>>, user |-> user,
                        outcome |-> userHasPermission(user, o, permission),
                        steps |-> <<Step("userHasPermission", u, o)>>,
                        before |-> db]
            /\ UNCHANGED <<identityVars, db, browserVars, mutations, rejected, calls>>

NextPermission == CheckPermission \/ Reply

\* Permission checks against any Membership table.
SpecPermission == InitPermission /\ [][NextPermission]_vars

\* ------------------------------------------------------------ the display cookie
\* The userID cookie is set with { httpOnly: false, signed: false }: the
\* client can read it and replace it with any value.
CookieValues == {"0", "1", "2"}

\* The client replaces its userID cookie.
SetCookie ==
    \E v \in CookieValues :
        /\ last = Idle
        /\ cookies.userID # v
        /\ cookies' = cookieSet(cookies, v)
        /\ UNCHANGED <<identityVars, db, session, last, mutations, rejected, calls>>

NextCookie == SignIn \/ SignOut \/ SetCookie \/ Delete \/ Reply

\* One browser signing in and out, editing its cookie and sending delete
\* requests with its session or an API key.
SpecCookie == InitAuth /\ [][NextCookie]_vars

\* ------------------------------------------------------------ session resolution
\* The sessions a request may carry: no identity or one of ids 1..2, with no
\* type or any AuthType.
Sessions == [userID : 0..2, type : AuthType \cup {Undefined}]

\* The Identity tables: every subset of the initial Identities (an Identity of
\* a session may have been removed since sign-in).
UserTables == { [u \in ids |-> InitUsers[u]] : ids \in SUBSET DOMAIN InitUsers }

InitResolve ==
    /\ users \in UserTables
    /\ memberships = InitMemberships
    /\ organizations = InitOrganizations
    /\ apiKeys = InitAPIKeys
    /\ db = InitDB
    /\ last = Idle
    /\ mutations = 0
    /\ rejected = 0
    /\ calls = [p \in Clients |-> NoCall]
    /\ session \in Sessions
    /\ cookies = NewBrowser.cookies

\* An operation resolves the session's identity for the phase it demands.
ResolveSession ==
    \E allowedType \in AuthType :
        /\ last = Idle
        /\ last' = [op |-> "fromSession", credential |-> "session",
                    args |-> <<allowedType>>,
                    user |-> fromSession(session, allowedType),
                    outcome |-> IF fromSession(session, allowedType) = NoUser
                                THEN "Unauthenticated" ELSE "ok",
                    steps |-> <<>>,
                    before |-> [session |-> session]]
        /\ UNCHANGED <<identityVars, db, browserVars, mutations, rejected, calls>>

NextResolve == ResolveSession \/ Reply

\* Session resolution for any session, demanded phase and Identity table.
SpecResolve == InitResolve /\ [][NextResolve]_vars

\* ------------------------------------------------------------ second-factor removal
\* user.disableTOTP(password): the outcome, the user afterwards and the calls
\* it made (compare, save).
disableTOTP(user, password) ==
    IF user.totpSecret = Null
    THEN [outcome |-> "ok", user |-> user, steps |-> <<>>]
    ELSE LET passwordValid == compare(password, user.passwordHash)
         IN  IF passwordValid.threw
             THEN [outcome |-> "InternalError", user |-> user,
                   steps |-> <<"compare">>]
             ELSE IF ~passwordValid.valid
             THEN [outcome |-> "Password is not valid!", user |-> user,
                   steps |-> <<"compare">>]
             ELSE [outcome |-> "ok", user |-> [user EXCEPT !.totpSecret = Null],
                   steps |-> <<"compare", "save">>]

\* Passwords a caller may submit.
Passwords == {"pw1", "pw2", "pw3"}

\* The Identity tables: alice and bob, each enrolled or not, each with a
\* password hash of their own or (signed up through the external login)
\* without one.
TOTPUserTables ==
    { [u \in DOMAIN InitUsers |->
          [InitUsers[u] EXCEPT !.totpSecret = enrolled[u],
                               !.passwordHash = IF hashed[u] THEN @ ELSE Null]] :
        enrolled \in [DOMAIN InitUsers -> {Null, "s1"}],
        hashed \in [DOMAIN InitUsers -> BOOLEAN] }

InitTOTP ==
    /\ users \in TOTPUserTables
    /\ memberships = InitMemberships
    /\ organizations = InitOrganizations
    /\ apiKeys = InitAPIKeys
    /\ db = InitDB
    /\ last = Idle
    /\ mutations = 0
    /\ rejected = 0
    /\ calls = [p \in Clients |-> NoCall]
    /\ session = NewBrowser.session
    /\ cookies = NewBrowser.cookies

\* A resolver calls user.disableTOTP(password) on an Identity.
DisableTOTP ==
    \E u \in DOMAIN users, password \in Passwords :
        LET r == disableTOTP(users[u], password)
        IN  /\ last = Idle
            /\ users' = IF "save" \in {r.steps[i] : i \in DOMAIN r.steps}
                        THEN SaveRow(users, u, r.user) ELSE users
            /\ last' = [op |-> "disableTOTP", credential |-> "session",
                        args |-> <<u, password>>, user |-> NoUser,
                        outcome |-> r.outcome, steps |-> r.steps,
                        before |-> [users |-> users]]
            /\ UNCHANGED <<memberships, apiKeys, organizations, db, browserVars,
                           mutations, rejected, calls>>

NextTOTP == DisableTOTP \/ Reply

\* Identities removing their second factor.
SpecTOTP == InitTOTP /\ [][NextTOTP]_vars

\* ------------------------------------------------------------ properties
\* The caller holds at least write on the Organization.
HasWrite(userID, organization) ==
    PermissionRank[LevelOf(userID, organization)] >= PermissionRank["write"]

\* Positions of a step in a call's record.
StepsNamed(call, name) == {i \in 1..Len(call.steps) : call.steps[i].step = name}

\* The gate returned the ApplicationMutations object to the call.
GatePassed(call) == StepsNamed(call, "ApplicationMutations") # {}

\* The Application a ContainerGroup / Secret hangs under, 0 when the chain
\* is broken.
AppOfGroup(d, g) ==
    IF g \in DOMAIN d.containerGroups
       /\ d.containerGroups[g].component \in DOMAIN d.components
    THEN d.components[d.containerGroups[g].component].application
    ELSE 0

AppOfSecret(d, sid) ==
    IF sid \in DOMAIN d.secrets THEN AppOfGroup(d, d.secrets[sid].containerGroup)
    ELSE 0

\* C1: a mutation called with a session in phase TOTP (no API key) is
\* answered Unauthenticated before the Application is loaded, changes no row,
\* and so never succeeds.
C1_TotpSessionCannotMutate ==
    (last.op \in MutationOps /\ last.credential = "session" /\ session.type = "TOTP")
        => /\ last.outcome = "Unauthenticated"
           /\ last.user = NoUser
           /\ last.steps = <<>>
           /\ db = last.before

\* A mutation was refused to alice's pending second-factor session on her own
\* Application.
C1_Witness ==
    /\ last.op \in MutationOps
    /\ last.credential = "session"
    /\ session = [userID |-> 1, type |-> "TOTP"]
    /\ last.args[1] = 1
    /\ last.outcome = "Unauthenticated"

\* C2: a mutation persists only after the permission check ran for the caller
\* and the Organization of the Application the gate loaded, and only for a
\* caller with at least write on that Organization; any other call leaves
\* the store unchanged.
C2_MutationOnlyAfterWriteCheck ==
    (last.op \in MutationOps
     /\ (db # last.before \/ StepsNamed(last, "persist") # {}))
        => LET id == last.args[1]
               caller == last.user.id
               apps == last.before.applications
           IN  /\ id \in DOMAIN apps
               /\ \E i \in StepsNamed(last, "userHasPermission") :
                      /\ last.steps[i] =
                             Step("userHasPermission", caller, apps[id].organization)
                      /\ \A j \in StepsNamed(last, "persist") : i < j
                      /\ \E k \in StepsNamed(last, "loadApplication") :
                             k < i /\ last.steps[k].target = id
               /\ HasWrite(caller, apps[id].organization)

\* bob, with write on organization 2, changed Application 2.
C2_Witness ==
    /\ last.op = "update"
    /\ last.outcome = "ok"
    /\ last.user.id = 2
    /\ last.args[1] = 2
    /\ db.applications[2].name = "shop"
    /\ last.before.applications[2].name = "web"

\* C3: addSecret, editSecret and deleteSecret succeed only for a caller with
\* at least write on the Organization that owns the addressed ContainerGroup.
C3_SecretNeedsWriteOnGroupOrganization ==
    (last.op \in {"addSecret", "editSecret", "deleteSecret"} /\ last.outcome = "ok")
        => /\ last.args[2] \in DOMAIN last.before.containerGroups
           /\ HasWrite(last.user.id,
                       last.before.containerGroups[last.args[2]].organization)

\* C4: editSecret and deleteSecret act on the Secret with the given id only
\* when it is a Secret of the given ContainerGroup, and then on that Secret
\* alone; for any other pair the call fails (not-found once past the gate)
\* and the store is unchanged.
C4_SecretLookupScopedByGroup ==
    (last.op \in {"editSecret", "deleteSecret"})
        => LET g == last.args[2]
               sid == last.args[3]
               old == last.before.secrets
               match == sid \in DOMAIN old /\ old[sid].containerGroup = g
           IN  IF match /\ GatePassed(last)
               THEN /\ last.outcome = "ok"
                    /\ \A i \in DOMAIN old \ {sid} :
                           i \in DOMAIN db.secrets /\ db.secrets[i] = old[i]
                    /\ last.op = "deleteSecret" => sid \notin DOMAIN db.secrets
                    /\ last.op = "editSecret" =>
                           db.secrets = [old EXCEPT
                               ![sid] = [@ EXCEPT !.key = last.args[4],
                                                  !.value = last.args[5]]]
               ELSE /\ last.outcome # "ok"
                    /\ GatePassed(last) => last.outcome = "NotFound"
                    /\ db = last.before

\* An existing Secret was addressed through another ContainerGroup and the
\* call, past the gate, failed with not-found.
C4_Witness ==
    /\ last.op \in {"editSecret", "deleteSecret"}
    /\ GatePassed(last)
    /\ last.args[3] \in DOMAIN db.secrets
    /\ db.secrets[last.args[3]].containerGroup # last.args[2]
    /\ last.outcome = "NotFound"

\* C5: a mutation whose request resolves to no identity fails with the
\* authorization error before anything else runs: no Application is loaded,
\* no permission is evaluated, no row changes.
C5_NoGrantFailsFirst ==
    (last.op \in MutationOps /\ last.user = NoUser)
        => /\ last.outcome = "Unauthenticated"
           /\ StepsNamed(last, "loadApplication") = {}
           /\ StepsNamed(last, "userHasPermission") = {}
           /\ db = last.before

\* A mutation presenting an API key no record matches was refused.
C5_Witness ==
    /\ last.op \in MutationOps
    /\ last.credential = "kx"
    /\ last.args[1] \in DOMAIN db.applications
    /\ last.user = NoUser
    /\ last.outcome = "Unauthenticated"

\* The submitted code completes the session's second factor: the session is
\* in phase TOTP, its identity exists and is enrolled, and the code verifies.
Completes(s, token) ==
    /\ s.userID # 0
    /\ s.type = "TOTP"
    /\ s.userID \in DOMAIN users
    /\ users[s.userID].totpSecret # Null
    /\ authenticatorVerify(users[s.userID].totpSecret, token)

\* C6: second-factor completion with a verifying code on a pending session
\* of an enrolled identity succeeds and re-issues the session at phase FULL
\* for the same identity, which a full-phase resolution then yields.
C6_CompletionIssuesFullSession ==
    [][(last'.op = "exchangeTOTP" /\ Completes(session, last'.args[1]))
       => (/\ last'.outcome = "ok"
           /\ session' = [userID |-> session.userID, type |-> "FULL"]
           /\ fromSession(session', "FULL")
                  = [id |-> session.userID, grantType |-> "SESSION"])]_vars

\* alice completed her second factor.
C6_Witness ==
    /\ last.op = "exchangeTOTP"
    /\ last.outcome = "ok"
    /\ last.user.id = 1
    /\ session = [userID |-> 1, type |-> "FULL"]

C8_APIKeyResolvesOwner ==
    (last.op \in MutationOps /\ last.credential # "session")
        => /\ \A k \in apiKeys :
                  k.key = last.credential
                      => last.user = [id |-> k.user, grantType |-> "API_KEY"]
           /\ (\A k \in apiKeys : k.key # last.credential)
                  => last.user = NoUser /\ last.outcome = "Unauthenticated"

\* bob's API key was resolved while the browser held alice's pending
\* second-factor session.
C8_Witness ==
    /\ last.op \in MutationOps
    /\ last.credential = "k2"
    /\ session = [userID |-> 1, type |-> "TOTP"]
    /\ last.user = [id |-> 2, grantType |-> "API_KEY"]
    /\ last.outcome = "ok"

\* C9: after a successful delete of an Application, the Application and every
\* Component, ContainerGroup and Secret that belonged to it are gone.
C9_DeleteApplicationCascades ==
    (last.op = "delete" /\ last.outcome = "ok")
        => LET id == last.args[1]
               old == last.before
           IN  /\ id \notin DOMAIN db.applications
               /\ \A c \in DOMAIN old.components :
                      old.components[c].application = id
                          => c \notin DOMAIN db.components
               /\ \A g \in DOMAIN old.containerGroups :
                      AppOfGroup(old, g) = id => g \notin DOMAIN db.containerGroups
               /\ \A x \in DOMAIN old.secrets :
                      AppOfSecret(old, x) = id => x \notin DOMAIN db.secrets

\* C10: deleteComponent deletes a Component only if it belongs to the gate's
\* Application (else it fails and nothing is deleted), and after a successful
\* call no ContainerGroup or Secret of that Component remains.
C10_DeleteComponentCascades ==
    (last.op = "deleteComponent")
        => LET id == last.args[1]
               cid == last.args[2]
               old == last.before
               owned == cid \in DOMAIN old.components
                        /\ old.components[cid].application = id
           IN  IF owned /\ GatePassed(last)
               THEN /\ last.outcome = "ok"
                    /\ cid \notin DOMAIN db.components
                    /\ \A g \in DOMAIN old.containerGroups :
                           old.containerGroups[g].component = cid
                               => g \notin DOMAIN db.containerGroups
                    /\ \A x \in DOMAIN old.secrets :
                           (/\ old.secrets[x].containerGroup
                                   \in DOMAIN old.containerGroups
                            /\ old.containerGroups[old.secrets[x].containerGroup]
                                   .component = cid)
                               => x \notin DOMAIN db.secrets
               ELSE /\ last.outcome # "ok"
                    /\ db = last.before

\* C11: in every state reached by concurrent requests, every Secret's
\* ContainerGroup exists, every ContainerGroup's Component exists and every
\* Component's Application exists.
C11_ReferentialIntegrity ==
    /\ \A x \in DOMAIN db.secrets :
           db.secrets[x].containerGroup \in DOMAIN db.containerGroups
    /\ \A g \in DOMAIN db.containerGroups :
           db.containerGroups[g].component \in DOMAIN db.components
    /\ \A c \in DOMAIN db.components :
           db.components[c].application \in DOMAIN db.applications

\* C12: when the Identity-creation or the Membership-creation step of signUp
\* fails, no Organization and no Identity row of that attempt is in the store
\* afterwards, and the session is as it was.
C12_SignUpAtomic ==
    (last.op = "signUp" /\ last.outcome # "ok" /\ Len(last.steps) >= 1)
        => /\ organizations = last.before.organizations
           /\ users = last.before.users
           /\ memberships = last.before.memberships
           /\ session = last.before.session

\* The Identity a successful signUp created.
NewUser == CHOOSE u \in DOMAIN users : u \notin DOMAIN last.before.users

\* C13: after a successful signUp the new Identity owns one new personal
\* Organization whose handle is its username, its only Membership links it to
\* that Organization at level admin, and the session holds its id at phase
\* FULL; in every state each Identity owns an existing personal Organization
\* that no other Identity owns, and no (Identity, Organization) pair has two
\* Memberships.
C13_SignUpPostconditions ==
    /\ (last.op = "signUp" /\ last.outcome = "ok")
           => /\ Cardinality(DOMAIN users) = Cardinality(DOMAIN last.before.users) + 1
              /\ LET u == NewUser
                     o == users[u].personalOrganization
                 IN  /\ users[u].username = last.args[1].username
                     /\ o \in DOMAIN organizations \ DOMAIN last.before.organizations
                     /\ organizations[o].isPersonal
                     /\ organizations[o].username = users[u].username
                     /\ {m \in memberships : m.user = u}
                            = {[user |-> u, organization |-> o, permission |-> "admin"]}
                     /\ session = [userID |-> u, type |-> "FULL"]
    /\ \A u \in DOMAIN users :
           /\ users[u].personalOrganization \in DOMAIN organizations
           /\ organizations[users[u].personalOrganization].isPersonal
           /\ organizations[users[u].personalOrganization].username = users[u].username
           /\ \A v \in DOMAIN users :
                  users[v].personalOrganization = users[u].personalOrganization => v = u
    /\ \A m, n \in memberships :
           (m.user = n.user /\ m.organization = n.organization) => m = n

\* carol signed up after an earlier attempt under her username had failed.
C13_Witness ==
    /\ last.op = "signUp"
    /\ last.outcome = "ok"
    /\ last.args[1].username = "carol"
    /\ Cardinality({o \in DOMAIN organizations :
                        organizations[o].username = "carol"}) = 2
    /\ session = [userID |-> 3, type |-> "FULL"]
    /\ cookies.userID = "3"

\* Two finished concurrent calls that both passed the gate.
BothDone(p, q) ==
    /\ p # q
    /\ calls[p].pc = "done" /\ calls[q].pc = "done"
    /\ calls[p].app # NoApplication /\ calls[q].app # NoApplication

\* C14: of two concurrent calls on the same Secret (same ContainerGroup and
\* id), one a deleteSecret and the other an editSecret or deleteSecret, the
\* one whose write lands after the row was deleted fails with NotFound, and
\* once both have finished the Secret row does not exist.
C14_RaceOnDeletedSecret ==
    \A p, q \in Clients :
        (/\ BothDone(p, q)
         /\ calls[p].op = "deleteSecret"
         /\ calls[q].op \in {"editSecret", "deleteSecret"}
         /\ calls[p].args[2] = calls[q].args[2]
         /\ calls[p].args[3] = calls[q].args[3])
            => /\ calls[p].stale => calls[p].outcome = "NotFound"
               /\ calls[q].stale => calls[q].outcome = "NotFound"
               /\ calls[p].args[3] \notin DOMAIN db.secrets

\* C15: two concurrent addSecret calls on the same existing ContainerGroup
\* with different keys both succeed, create Secrets with distinct ids, and
\* both Secrets are in the store with the key and value their caller gave.
C15_ConcurrentAddSecret ==
    \A p, q \in Clients :
        (/\ BothDone(p, q)
         /\ calls[p].op = "addSecret" /\ calls[q].op = "addSecret"
         /\ calls[p].args[2] = calls[q].args[2]
         /\ calls[p].args[2] \in DOMAIN InitDB.containerGroups
         /\ calls[p].args[3] # calls[q].args[3])
            => /\ calls[p].outcome = "ok" /\ calls[q].outcome = "ok"
               /\ calls[p].row.id # calls[q].row.id
               /\ \A r \in {p, q} :
                      /\ calls[r].row.id \in DOMAIN db.secrets
                      /\ db.secrets[calls[r].row.id]
                             = [id |-> calls[r].row.id,
                                containerGroup |-> calls[r].args[2],
                                key |-> calls[r].args[3],
                                value |-> calls[r].args[4]]

\* Both callers added their Secret to ContainerGroup 1; client 2's insert
\* reached the store first.
C15_Witness ==
    /\ BothDone(1, 2)
    /\ calls[1].op = "addSecret" /\ calls[2].op = "addSecret"
    /\ calls[1].args[3] = "API_TOKEN" /\ calls[2].args[3] = "API_HOST"
    /\ calls[1].outcome = "ok" /\ calls[2].outcome = "ok"
    /\ calls[2].row.id = 3 /\ calls[1].row.id = 4
    /\ db.secrets[3].key = "API_HOST" /\ db.secrets[4].key = "API_TOKEN"

\* The updatable fields of a Component.
ComponentFields == {"name", "image", "deploymentStrategy"}

\* C16: updateComponent changes exactly the fields of name, image and
\* deploymentStrategy that the input provides with a non-null value, keeps
\* the others, the Component's id and its Application, and leaves every other
\* row alone; for a Component that is not one of the gate's Application it
\* fails (not-found once past the gate) and changes nothing.
C16_UpdateComponentPartial ==
    (last.op = "updateComponent")
        => LET id == last.args[1]
               cid == last.args[2]
               input == last.args[3]
               old == last.before.components
               owned == cid \in DOMAIN old /\ old[cid].application = id
           IN  IF owned /\ GatePassed(last)
               THEN /\ last.outcome = "ok"
                    /\ db = [last.before EXCEPT !.components[cid] = db.components[cid]]
                    /\ db.components[cid].id = cid
                    /\ db.components[cid].application = id
                    /\ \A f \in ComponentFields :
                           db.components[cid][f] =
                               IF f \in DOMAIN input /\ Provided(input[f])
                               THEN input[f] ELSE old[cid][f]
               ELSE /\ last.outcome # "ok"
                    /\ GatePassed(last) => last.outcome = "NotFound"
                    /\ db = last.before

\* C17: update changes the Application's name iff the input gives a non-null
\* name and its description iff the input gives a non-null description;
\* omitted and null fields keep the stored value, id and Organization are
\* kept, and no other row changes.
C17_UpdateApplicationPartial ==
    (last.op = "update")
        => IF GatePassed(last)
           THEN LET id == last.args[1]
                    input == last.args[2]
                    old == last.before.applications[id]
                IN  /\ last.outcome = "ok"
                    /\ db = [last.before EXCEPT !.applications[id] =
                                [id |-> old.id,
                                 organization |-> old.organization,
                                 name |-> IF input.name \in {Undefined, Null}
                                          THEN old.name ELSE input.name,
                                 description |->
                                     IF input.description \in {Undefined, Null}
                                     THEN old.description ELSE input.description]]
           ELSE last.outcome # "ok" /\ db = last.before

\* An update with a null name and a new description changed the description
\* and kept the name.
C17_Witness ==
    /\ last.op = "update"
    /\ last.outcome = "ok"
    /\ last.args[2] = [name |-> Null, description |-> "store"]
    /\ db.applications[last.args[1]].name = "web"
    /\ db.applications[last.args[1]].description = "store"
    /\ last.before.applications[last.args[1]].description = "site"

\* C18: createContainerGroup creates a ContainerGroup only when componentID
\* names a Component of the gate's Application and environmentID names an
\* Environment of the Application's Organization, and the row it creates
\* links that Component, that Environment and that Organization; when either
\* lookup finds nothing the call, past the gate, fails with not-found and the
\* store is unchanged.
C18_ContainerGroupParentsScoped ==
    (last.op = "createContainerGroup")
        => LET id == last.args[1]
               input == last.args[2]
               old == last.before
               componentOK == /\ input.componentID \in DOMAIN old.components
                              /\ old.components[input.componentID].application = id
               environmentOK ==
                   /\ id \in DOMAIN old.applications
                   /\ input.environmentID \in DOMAIN old.environments
                   /\ old.environments[input.environmentID].organization
                          = old.applications[id].organization
               new == old.nextID.containerGroups
           IN  /\ db.containerGroups # old.containerGroups
                      => /\ componentOK /\ environmentOK /\ GatePassed(last)
                         /\ last.outcome = "ok"
                         /\ DOMAIN db.containerGroups
                                = DOMAIN old.containerGroups \cup {new}
                         /\ \A g \in DOMAIN old.containerGroups :
                                db.containerGroups[g] = old.containerGroups[g]
                         /\ db.containerGroups[new].component = input.componentID
                         /\ db.containerGroups[new].environment = input.environmentID
                         /\ db.containerGroups[new].organization
                                = old.applications[id].organization
               /\ (GatePassed(last) /\ ~(componentOK /\ environmentOK))
                      => last.outcome = "NotFound" /\ db = old
               /\ last.outcome # "ok" => db = old

\* bob, past the gate of Application 2, named his own Component with an
\* Environment of organization 1 and was answered not-found.
C18_Witness ==
    /\ last.op = "createContainerGroup"
    /\ last.user.id = 2
    /\ last.args[1] = 2
    /\ GatePassed(last)
    /\ last.args[2].componentID = 2
    /\ last.args[2].environmentID = 1
    /\ last.outcome = "NotFound"
    /\ db = last.before

\* The pairs <<held, required>> of levels where held is at least required, in
\* the order none < read < write < admin.
AtLeast ==
    {<<"read", "read">>,
     <<"write", "read">>, <<"write", "write">>,
     <<"admin", "read">>, <<"admin", "write">>, <<"admin", "admin">>}

\* C19: a permission check for level L succeeds iff the caller's Membership
\* on the Organization holds a level at least L in the order
\* none < read < write < admin; a caller without a Membership fails every
\* check, read passes read and fails write, admin passes all three.
C19_PermissionOrdering ==
    (last.op = "userHasPermission")
        => LET u == last.args[1]
               o == last.args[2]
               required == last.args[3]
               held == {m.permission : m \in
                           {n \in memberships : n.user = u /\ n.organization = o}}
           IN  /\ Cardinality(held) <= 1
               /\ last.outcome = "ok" <=> \E h \in held : <<h, required>> \in AtLeast
               /\ held = {} => last.outcome # "ok"
               /\ (held = {"read"} /\ required = "read") => last.outcome = "ok"
               /\ (held = {"read"} /\ required = "write") => last.outcome # "ok"
               /\ held = {"admin"} => last.outcome = "ok"

\* A read Membership was refused a check for write.
C19_Witness ==
    /\ last.op = "userHasPermission"
    /\ last.args[3] = "write"
    /\ [user |-> last.args[1], organization |-> last.args[2], permission |-> "read"]
           \in memberships
    /\ last.outcome = "Unauthorized"

\* C20: a step that changes the userID cookie and leaves the session and the
\* store as they are changes, for no API key or session request and no
\* Application id, the identity and grant kind the request resolves to or
\* the gate's outcome for it.
C20_CookieNotTrusted ==
    [][(cookies' # cookies /\ session' = session /\ db' = db)
       => \A credential \in Credentials, id \in AppIDs :
              /\ ContextUser(credential)' = ContextUser(credential)
              /\ application(ContextUser(credential), id, db)'
                     = application(ContextUser(credential), id, db)]_vars

\* A delete sent with alice's full session passed the gate as alice while the
\* userID cookie named bob.
C20_Witness ==
    /\ last.op = "delete"
    /\ last.credential = "session"
    /\ session = [userID |-> 1, type |-> "FULL"]
    /\ cookies.userID = "2"
    /\ last.user = [id |-> 1, grantType |-> "SESSION"]
    /\ last.args[1] = 1
    /\ last.outcome = "ok"

\* C21: fromSession(session, demanded) gives an identity iff the session
\* holds an identity id, the session's type is the demanded one and an
\* Identity with that id exists; the identity is the session's, with grant
\* kind SESSION; in every other case the result is no identity; the session
\* is as it was.
C21_SessionResolution ==
    (last.op = "fromSession")
        => LET demanded == last.args[1]
               resolves == /\ session.userID # 0
                           /\ session.type = demanded
                           /\ session.userID \in DOMAIN users
           IN  /\ resolves => /\ last.user = [id |-> session.userID,
                                             grantType |-> "SESSION"]
                              /\ last.outcome = "ok"
               /\ ~resolves => /\ last.user = NoUser
                               /\ last.outcome = "Unauthenticated"
               /\ session = last.before.session

\* A full-phase session of an Identity that no longer exists resolved to no
\* identity.
C21_Witness ==
    /\ last.op = "fromSession"
    /\ last.args[1] = "FULL"
    /\ session = [userID |-> 1, type |-> "FULL"]
    /\ 1 \notin DOMAIN users
    /\ 2 \in DOMAIN users
    /\ last.user = NoUser

\* The Organization that owns the Application of a ContainerGroup's
\* Component, 0 when the Component or its Application is not in the store.
OwnerOfGroup(d, g) ==
    IF AppOfGroup(d, g) \in DOMAIN d.applications
    THEN d.applications[AppOfGroup(d, g)].organization
    ELSE 0

C23_SignOutOnlyClearsCookie ==
    [][(last'.op = "signOut")
       => /\ cookies' = [cookies EXCEPT !.userID = "0"]
          /\ session' = session
          /\ <<users, memberships, apiKeys, organizations, db>>'
                 = <<users, memberships, apiKeys, organizations, db>>
          /\ fromSession(session, "FULL")' = fromSession(session, "FULL")
          /\ \A id \in AppIDs :
                 application(fromSession(session, "FULL"), id, db)'
                     = application(fromSession(session, "FULL"), id, db)]_vars

\* alice signed out of a full session: the cookie is "0", the session still
\* resolves to alice and passes the gate of her Application.
C23_Witness ==
    /\ last.op = "signOut"
    /\ cookies.userID = "0"
    /\ session = [userID |-> 1, type |-> "FULL"]
    /\ fromSession(session, "FULL") = [id |-> 1, grantType |-> "SESSION"]
    /\ application(fromSession(session, "FULL"), 1, db).outcome = "ok"

\* C24: disableTOTP on an Identity with an enrolled secret clears the secret
\* and saves the Identity iff the stored password hash is that of the given
\* password; otherwise it fails, the secret stays and nothing is saved.  On
\* an Identity without a secret it returns without error, compares no
\* password and saves nothing.  No other Identity changes.
C24_DisableTOTP ==
    (last.op = "disableTOTP")
        => LET u == last.args[1]
               password == last.args[2]
               old == last.before.users
               saved == \E i \in DOMAIN last.steps : last.steps[i] = "save"
               compared == \E i \in DOMAIN last.steps : last.steps[i] = "compare"
           IN  /\ \A v \in DOMAIN old \ {u} : users[v] = old[v]
               /\ DOMAIN users = DOMAIN old
               /\ IF old[u].totpSecret = Null
                  THEN /\ last.outcome = "ok"
                       /\ users = old
                       /\ ~compared /\ ~saved
                  ELSE IF old[u].passwordHash = "$2a$10$" \o password
                  THEN /\ last.outcome = "ok"
                       /\ users[u] = [old[u] EXCEPT !.totpSecret = Null]
                       /\ compared /\ saved
                  ELSE /\ last.outcome # "ok"
                       /\ users = old
                       /\ users[u].totpSecret = old[u].totpSecret
                       /\ ~saved

\* alice, enrolled, gave a wrong password: the call failed and her secret is
\* still enrolled.
C24_Witness ==
    /\ last.op = "disableTOTP"
    /\ last.args = <<1, "pw2">>
    /\ last.before.users[1].passwordHash = Hash("pw1")
    /\ last.outcome = "Password is not valid!"
    /\ users[1].totpSecret = "s1"

====
